---------------------------- MODULE Spec2Model ----------------------------
(***************************************************************************)
(* A model of the raster harmonization workflow of aedes-americas          *)
(* (data-processing/01-raster-data-processing.ipynb and config.yml):       *)
(* no-data normalization with OTB ManageNoData, mosaicking with            *)
(* gdal.BuildVRT, reprojection with gdal.Warp (GRA_Average), the           *)
(* validity-fraction correction for population counts, and the             *)
(* multi-scale aggregation and batch driver the design describes.          *)
(*                                                                         *)
(* Pixel values are exact rationals [n |-> numerator, d |-> denominator];  *)
(* the floating-point NaN is the distinguished value 0/0.                  *)
(***************************************************************************)
EXTENDS Integers, Sequences, FiniteSets, TLC

VARIABLES
    \* ---- reprojection of one mosaic (SpecRaster) ----
    raw,        \* the raw source tile: [px, flag, val] (pixels, declared no-data)
    off,        \* x offset of the source grid inside the world of the destination box
    rpc,        \* position in the population workflow
    nd,         \* the "-nd.tif" tile written by ManageNoData changevalue
    avg,        \* Population-data-average.tif: the GRA_Average warp of the mosaic
    mask,       \* the "-mask.tif" 0/1 validity mask
    frac,       \* the validity fraction per destination pixel
    dest,       \* the extensive (count) raster at the base resolution
    coarse,     \* the base rasters aggregated once more: [int, ext]
    \* ---- multi-scale aggregation of a base raster (SpecAgg) ----
    base,       \* a base-resolution raster with canonical no-data
    apc,
    two,        \* base aggregated by 2: [int, ext]
    twotwo,     \* `two' aggregated by 2 again: [int, ext]
    four,       \* base aggregated directly by 4: [int, ext]
    \* ---- no-data normalization of one tile (SpecNoData) ----
    tile,       \* the input tile: [bands, shape, geo]
    newval,     \* mode.changevalue.newv
    npc,
    once,       \* the tile after ManageNoData changevalue
    twice,      \* `once' after ManageNoData changevalue again
    \* ---- mosaicking (SpecMosaic) ----
    nd_paths,   \* the "-nd.tif" tiles, in list order
    mpc,
    vrt,        \* Population-data-raw.vrt: [extent, px]
    \* ---- the cells of section 1 of the notebook (SpecNotebook) ----
    cell,       \* the cell being run, or "halted" after an exception
    ipath,      \* the position of input_path in raw_paths
    stmt,       \* the statement of the loop body to run next
    files,      \* the LACR-pop-density-* files in the data directory
    written,    \* the files this run has written
    raw_paths,  \* the sorted glob of the raw files
    otb,        \* manageNoData's parameters: the keys that are set, with values
    vrt_paths,  \* nd_paths: the sorted glob of the "-nd.tif" files
    built,      \* the sources of the VRT once BuildVRT has returned
    average,    \* the sources Warp has read once it has returned
    \* ---- the batch driver over the Measures (SpecBatch) ----
    stage,      \* each Measure's pipeline stage, "done" or "failed"
    tries,      \* each Measure's failed writes so far
    running,    \* the Measures holding a worker
    reported,   \* the Measures reported as failed
    outputs,    \* the Measures whose rasters are written
    \* ---- the output directories and files (SpecLayout) ----
    fs,         \* the directories that exist
    grid_dirs,  \* the list of grid directories the cell has built
    lpc,        \* the loop of the directory cell being run
    idir,       \* the position in that loop's list
    run,        \* how many times the directory cell has been started
    gridfiles,  \* the rasters written: [size, measure, at]
    \* ---- the grids over the bounding box (SpecGrid) ----
    box,        \* config['bounds']: <<xmin, ymin, xmax, ymax>>
    gpc,        \* position: the warp, the aggregations, done
    baseGrid,   \* the base raster's [w, h, extent]
    grids       \* per coarser size: [size, k, exact, cols, rows, remx, remy]

rasterVars == <<raw, off, rpc, nd, avg, mask, frac, dest, coarse>>
aggVars    == <<base, apc, two, twotwo, four>>
noDataVars == <<tile, newval, npc, once, twice>>
mosaicVars == <<nd_paths, mpc, vrt>>
bookVars   == <<cell, ipath, stmt, files, written, raw_paths, otb, vrt_paths, built, average>>
batchVars  == <<stage, tries, running, reported, outputs>>
layoutVars == <<fs, grid_dirs, lpc, idir, run, gridfiles>>
gridVars   == <<box, gpc, baseGrid, grids>>
vars       == <<rasterVars, aggVars, noDataVars, mosaicVars, bookVars, batchVars,
                layoutVars, gridVars>>

notRaster == <<aggVars, noDataVars, mosaicVars, bookVars, batchVars,
              layoutVars, gridVars>>
notAgg    == <<rasterVars, noDataVars, mosaicVars, bookVars, batchVars,
              layoutVars, gridVars>>
notNoData == <<rasterVars, aggVars, mosaicVars, bookVars, batchVars,
              layoutVars, gridVars>>
notMosaic == <<rasterVars, aggVars, noDataVars, bookVars, batchVars,
              layoutVars, gridVars>>
notBook   == <<rasterVars, aggVars, noDataVars, mosaicVars, batchVars,
              layoutVars, gridVars>>
notBatch  == <<rasterVars, aggVars, noDataVars, mosaicVars, bookVars,
              layoutVars, gridVars>>
notLayout == <<rasterVars, aggVars, noDataVars, mosaicVars, bookVars,
              batchVars, gridVars>>
notGrid   == <<rasterVars, aggVars, noDataVars, mosaicVars, bookVars,
              batchVars, layoutVars>>

-----------------------------------------------------------------------------
(* Bounds of the model.                                                    *)

\* number of 2x2 block patterns a source raster is drawn from
MaxPat == 6

\* most bands of a tile
MaxBands == 2

\* most tiles of a mosaic
MaxTiles == 2

\* most raw tiles in the data directory
MaxRaw == 2

\* Measures in a batch
NumMeasures == 2

\* workers of the batch driver
WorkerCount == 1

\* retries of a failed write
MaxRetries == 2

\* times the directory cell is run
MaxRuns == 2

\* most half cells the bounding box is widened by, each way
MaxPad == 12

-----------------------------------------------------------------------------
(* Exact arithmetic on pixel values.                                       *)

RECURSIVE GCD(_, _)
GCD(a, b) == IF b = 0 THEN a ELSE GCD(b, a % b)

Abs(x) == IF x < 0 THEN -x ELSE x

NaN == [n |-> 0, d |-> 0]

IsNaN(a) == a.d = 0

Rat(num, den) ==
    IF den = 0 THEN NaN
    ELSE LET g == GCD(Abs(num), Abs(den))
             s == IF den < 0 THEN -1 ELSE 1
         IN  [n |-> s * (num \div g), d |-> s * (den \div g)]

Int2R(k) == [n |-> k, d |-> 1]

RAdd(a, b) == IF IsNaN(a) \/ IsNaN(b) THEN NaN ELSE Rat(a.n * b.d + b.n * a.d, a.d * b.d)
RMul(a, b) == IF IsNaN(a) \/ IsNaN(b) THEN NaN ELSE Rat(a.n * b.n, a.d * b.d)
RDiv(a, b) == IF IsNaN(a) \/ IsNaN(b) THEN NaN ELSE Rat(a.n * b.d, a.d * b.n)

\* the == of floating point: NaN equals nothing, itself included
FloatEq(a, b) == ~IsNaN(a) /\ ~IsNaN(b) /\ a = b

\* config.yml: nodata
NoDataValue == -9999

nodata == Int2R(NoDataValue)

-----------------------------------------------------------------------------
(* Rasters: a square grid of side w is a function from Cells(w) to values. *)

Cells(w) == (0 .. w - 1) \X (0 .. w - 1)

RECURSIVE SumOver(_, _)
SumOver(px, S) ==
    IF S = {} THEN Int2R(0)
    ELSE LET c == CHOOSE c \in S : TRUE
         IN  RAdd(px[c], SumOver(px, S \ {c}))

\* the 2x2 blocks a source raster is assembled from, row-major
\* (top-left, top-right, bottom-left, bottom-right)
BlockPattern(i) ==
    CASE i = 1 -> <<Int2R(100), Int2R(100), Int2R(100), Int2R(100)>>
      [] i = 2 -> <<Int2R(100), Int2R(100), Int2R(100), NaN>>
      [] i = 3 -> <<NaN, NaN, NaN, NaN>>
      [] i = 4 -> <<Int2R(40), NaN, NaN, NaN>>
      [] i = 5 -> <<Int2R(0), Int2R(0), Int2R(0), Int2R(0)>>
      [] i = 6 -> <<Int2R(20), Int2R(60), NaN, NaN>>
      [] OTHER -> <<Int2R(10 * i), Int2R(10 * i), Int2R(10 * i), Int2R(10 * i)>>

\* source pixels per destination pixel, along one axis (100 m cells per
\* 1 km cell, scaled down)
SrcPerDst == 2

\* side of the destination grid (outputBounds / xRes), in destination
\* pixels, scaled down
DstW == 2

\* side of the source raster, in source pixels
SrcW == DstW * SrcPerDst

\* the raster whose block b (row-major, 1..4) shows pattern f[b]
MakeRaster(f) ==
    [c \in Cells(SrcW) |->
        BlockPattern(f[1 + (c[1] \div 2) + 2 * (c[2] \div 2)])[1 + (c[1] % 2) + 2 * (c[2] % 2)]]

-----------------------------------------------------------------------------
(* OTB ManageNoData, as the notebook parameterises it.                     *)

\* a no-data test that looks at the declared value only
IsNoData_DeclaredOnly(p, flag, val, usenan) == flag /\ FloatEq(p, val)

\* a pixel is no-data when it is NaN (usenan) or equals the band's declared
\* no-data value (flag: the band declares one)
IsNoData(p, flag, val, usenan) ==
    (usenan /\ IsNaN(p)) \/ (flag /\ FloatEq(p, val))

\* a changevalue that fills no-data pixels with 0 instead of newv
ChangeValue_FillZero(band, newv, usenan) ==
    [px   |-> [c \in DOMAIN band.px |->
                  IF IsNoData(band.px[c], band.flag, band.val, usenan)
                  THEN Int2R(0) ELSE band.px[c]],
     flag |-> (band.flag \/ usenan),
     val  |-> newv]

\* mode changevalue: no-data pixels become newv, the band declares newv
ChangeValue(band, newv, usenan) ==
    [px   |-> [c \in DOMAIN band.px |->
                  IF IsNoData(band.px[c], band.flag, band.val, usenan)
                  THEN newv ELSE band.px[c]],
     flag |-> (band.flag \/ usenan),
     val  |-> newv]

\* a buildmask with the inside and outside values swapped
BuildMask_Inverted(band, usenan) ==
    [c \in DOMAIN band.px |->
        IF IsNoData(band.px[c], band.flag, band.val, usenan) THEN 1 ELSE 0]

\* mode buildmask: 1 inside (valid), 0 outside (no-data)
BuildMask(band, usenan) ==
    [c \in DOMAIN band.px |->
        IF IsNoData(band.px[c], band.flag, band.val, usenan) THEN 0 ELSE 1]

-----------------------------------------------------------------------------
(* gdal.Warp with resampleAlg = GRA_Average onto the destination grid.     *)

\* source pixels per destination pixel
CellsPerWindow == SrcPerDst * SrcPerDst

\* the source pixels under destination pixel d, the source grid lying at
\* x offset o (in source pixels) from the corner of the output bounds
Window(d, o) ==
    {c \in Cells(SrcW) :
        /\ c[1] + o \in (SrcPerDst * d[1]) .. (SrcPerDst * d[1] + SrcPerDst - 1)
        /\ c[2] \in (SrcPerDst * d[2]) .. (SrcPerDst * d[2] + SrcPerDst - 1)}

\* a warp that was not told srcNodata: every pixel under d is averaged
WarpAverage_NoSrcNodata(px, o, srcNodata, dstNodata) ==
    [d \in Cells(DstW) |->
        LET all == Window(d, o)
        IN  IF all = {} THEN dstNodata
            ELSE RDiv(SumOver(px, all), Int2R(Cardinality(all)))]

\* a warp that divides by the valid count without looking at it
WarpAverage_Unguarded(px, o, srcNodata, dstNodata) ==
    [d \in Cells(DstW) |->
        LET valid == {c \in Window(d, o) : ~FloatEq(px[c], srcNodata)}
        IN  RDiv(SumOver(px, valid), Int2R(Cardinality(valid)))]

\* a warp that sums (GRA_Sum) where it should average
WarpAverage_Sum(px, o, srcNodata, dstNodata) ==
    [d \in Cells(DstW) |->
        LET valid == {c \in Window(d, o) : ~FloatEq(px[c], srcNodata)}
        IN  IF valid = {} THEN dstNodata ELSE SumOver(px, valid)]

\* the mean of the source pixels that are not srcNodata; dstNodata where
\* no such pixel lies under the destination pixel
WarpAverage(px, o, srcNodata, dstNodata) ==
    [d \in Cells(DstW) |->
        LET valid == {c \in Window(d, o) : ~FloatEq(px[c], srcNodata)}
        IN  IF valid = {} THEN dstNodata
            ELSE RDiv(SumOver(px, valid), Int2R(Cardinality(valid)))]

\* the share of the window's source pixels the mask marks valid
ValidFraction(m, o) ==
    [d \in Cells(DstW) |->
        Rat(Cardinality({c \in Window(d, o) : m[c] = 1}), CellsPerWindow)]

\* average population * (% valid cells * cells per window)
ScaledCount(a, f) == RMul(a, RMul(f, Int2R(CellsPerWindow)))

\* a destination pixel with validFraction = 0 is set to no-data
ExtensiveValue(a, f) ==
    IF f = Int2R(0) THEN nodata ELSE ScaledCount(a, f)

Scale(a, f) == [d \in Cells(DstW) |-> ExtensiveValue(a[d], f[d])]

-----------------------------------------------------------------------------
(* Multi-scale aggregation: k x k windows of a base raster of side w.      *)

AggWindow(c, k) ==
    ((k * c[1]) .. (k * c[1] + k - 1)) \X ((k * c[2]) .. (k * c[2] + k - 1))

ValidIn(px, S) == {c \in S : px[c] # nodata}

\* an intensive aggregation that writes 0 for a window with no valid pixel
AggregateIntensive_ZeroWhenEmpty(px, w, k) ==
    [c \in Cells(w \div k) |->
        LET valid == ValidIn(px, AggWindow(c, k))
        IN  IF valid = {} THEN Int2R(0)
            ELSE RDiv(SumOver(px, valid), Int2R(Cardinality(valid)))]

\* intensive: the mean of the valid pixels of the window
AggregateIntensive(px, w, k) ==
    [c \in Cells(w \div k) |->
        LET valid == ValidIn(px, AggWindow(c, k))
        IN  IF valid = {} THEN nodata
            ELSE RDiv(SumOver(px, valid), Int2R(Cardinality(valid)))]

\* extensive: the sum of the valid pixels, scaled by k*k / validCount
AggregateExtensive(px, w, k) ==
    [c \in Cells(w \div k) |->
        LET valid == ValidIn(px, AggWindow(c, k))
        IN  IF valid = {} THEN nodata
            ELSE RMul(SumOver(px, valid), Rat(k * k, Cardinality(valid)))]

Aggregate(r, w, k) ==
    [int |-> AggregateIntensive(r.int, w, k), ext |-> AggregateExtensive(r.ext, w, k)]

-----------------------------------------------------------------------------
(* SpecRaster: the population workflow on one source tile.                 *)

NoRaster == << >>

Patterns == [1 .. 4 -> 1 .. MaxPat]

\* the source grid congruent with the output bounds, half inside, or
\* wholly outside
Offsets == {0, SrcPerDst, SrcW}

RasterIdle ==
    /\ raw = NoRaster /\ off = 0 /\ rpc = "idle" /\ nd = NoRaster
    /\ avg = NoRaster /\ mask = NoRaster /\ frac = NoRaster
    /\ dest = NoRaster /\ coarse = NoRaster

AggIdle ==
    /\ base = NoRaster /\ apc = {"idle"} /\ two = NoRaster
    /\ twotwo = NoRaster /\ four = NoRaster

NoDataIdle ==
    /\ tile = NoRaster /\ newval = nodata /\ npc = "idle"
    /\ once = NoRaster /\ twice = NoRaster

MosaicIdle ==
    /\ nd_paths = << >> /\ mpc = "idle" /\ vrt = NoRaster

BatchIdle ==
    /\ stage = << >> /\ tries = << >> /\ running = {}
    /\ reported = {} /\ outputs = {}

GridIdle ==
    /\ box = << >> /\ gpc = "idle" /\ baseGrid = << >> /\ grids = << >>

LayoutIdle ==
    /\ fs = {} /\ grid_dirs = << >> /\ lpc = "idle" /\ idir = 0 /\ run = 0
    /\ gridfiles = {}

BookIdle ==
    /\ cell = "idle" /\ ipath = 0 /\ stmt = 0 /\ files = {} /\ written = {}
    /\ raw_paths = << >> /\ otb = << >> /\ vrt_paths = << >>
    /\ built = << >> /\ average = << >>

InitRaster ==
    /\ raw \in {[px |-> MakeRaster(f), flag |-> FALSE, val |-> Int2R(0)] : f \in Patterns}
    /\ off \in Offsets
    /\ rpc = "changevalue"
    /\ nd = NoRaster /\ avg = NoRaster /\ mask = NoRaster /\ frac = NoRaster
    /\ dest = NoRaster /\ coarse = NoRaster
    /\ AggIdle /\ NoDataIdle /\ MosaicIdle /\ BookIdle /\ BatchIdle /\ LayoutIdle
    /\ GridIdle

\* 1.3: ManageNoData mode changevalue, newv = config nodata, usenan = True
NormalizeTile ==
    /\ rpc = "changevalue"
    /\ nd' = ChangeValue(raw, nodata, TRUE)
    /\ rpc' = "warp"
    /\ UNCHANGED <<raw, off, avg, mask, frac, dest, coarse, notRaster>>

\* 1.4.1: gdal.Warp of the mosaic, srcNodata = dstNodata = config nodata
WarpMosaic ==
    /\ rpc = "warp"
    /\ avg' = WarpAverage(nd.px, off, nodata, nodata)
    /\ rpc' = "buildmask"
    /\ UNCHANGED <<raw, off, nd, mask, frac, dest, coarse, notRaster>>

\* 1.4.2: ManageNoData mode buildmask on the raw tile, usenan = True
MaskTile ==
    /\ rpc = "buildmask"
    /\ mask' = BuildMask(raw, TRUE)
    /\ rpc' = "fraction"
    /\ UNCHANGED <<raw, off, nd, avg, frac, dest, coarse, notRaster>>

\* the % valid cells of each destination pixel
WarpMask ==
    /\ rpc = "fraction"
    /\ frac' = ValidFraction(mask, off)
    /\ rpc' = "scale"
    /\ UNCHANGED <<raw, off, nd, avg, mask, dest, coarse, notRaster>>

\* average * (% valid cells * cells per window)
ScaleCounts ==
    /\ rpc = "scale"
    /\ dest' = Scale(avg, frac)
    /\ rpc' = "aggregate"
    /\ UNCHANGED <<raw, off, nd, avg, mask, frac, coarse, notRaster>>

\* the next grid size: the whole base raster in one window
AggregateBase ==
    /\ rpc = "aggregate"
    /\ coarse' = Aggregate([int |-> avg, ext |-> dest], DstW, DstW)
    /\ rpc' = "done"
    /\ UNCHANGED <<raw, off, nd, avg, mask, frac, dest, notRaster>>

NextRaster ==
    \/ NormalizeTile
    \/ WarpMosaic
    \/ MaskTile
    \/ WarpMask
    \/ ScaleCounts
    \/ AggregateBase

SpecRaster == InitRaster /\ [][NextRaster]_vars

-----------------------------------------------------------------------------
(* SpecAgg: two-step against direct aggregation of one base raster.        *)

InitAgg ==
    /\ base \in {ChangeValue([px |-> MakeRaster(f), flag |-> FALSE, val |-> Int2R(0)],
                              nodata, TRUE).px : f \in Patterns}
    /\ apc = {}
    /\ two = NoRaster /\ twotwo = NoRaster /\ four = NoRaster
    /\ RasterIdle /\ NoDataIdle /\ MosaicIdle /\ BookIdle /\ BatchIdle /\ LayoutIdle
    /\ GridIdle

AggTwo ==
    /\ "two" \notin apc
    /\ two' = Aggregate([int |-> base, ext |-> base], SrcW, 2)
    /\ apc' = apc \cup {"two"}
    /\ UNCHANGED <<base, twotwo, four, notAgg>>

AggTwoAgain ==
    /\ "two" \in apc /\ "twotwo" \notin apc
    /\ twotwo' = Aggregate(two, SrcW \div 2, 2)
    /\ apc' = apc \cup {"twotwo"}
    /\ UNCHANGED <<base, two, four, notAgg>>

AggFour ==
    /\ "four" \notin apc
    /\ four' = Aggregate([int |-> base, ext |-> base], SrcW, 4)
    /\ apc' = apc \cup {"four"}
    /\ UNCHANGED <<base, two, twotwo, notAgg>>

NextAgg ==
    \/ AggTwo
    \/ AggTwoAgain
    \/ AggFour

SpecAgg == InitAgg /\ [][NextAgg]_vars

-----------------------------------------------------------------------------
(* SpecNoData: ManageNoData changevalue on one tile, and on its output.    *)

\* the application on a whole tile: every band is rewritten, the shape and
\* the georeferencing are the input's
ManageNoData(t, v, usenan) ==
    [bands |-> [b \in DOMAIN t.bands |-> ChangeValue(t.bands[b], v, usenan)],
     shape |-> t.shape,
     geo   |-> t.geo]

PixelValues == {NaN, Int2R(-1), Int2R(5)}

\* a band declares no no-data value, NaN, or -1
Declared == {[flag |-> FALSE, val |-> Int2R(0)],
             [flag |-> TRUE, val |-> NaN],
             [flag |-> TRUE, val |-> Int2R(-1)]}

Bands == {[px |-> p, flag |-> dcl.flag, val |-> dcl.val] :
             p \in [1 .. 2 -> PixelValues], dcl \in Declared}

Tiles == UNION {[1 .. n -> Bands] : n \in 1 .. MaxBands}

InitNoData ==
    /\ tile \in {[bands |-> bs,
                   shape |-> [w |-> 2, h |-> 1],
                   geo   |-> [x0 |-> 0, y0 |-> 0, res |-> 100, crs |-> 4326]] :
                      bs \in Tiles}
    /\ newval \in {nodata, Int2R(5)}
    /\ npc = "raw"
    /\ once = NoRaster /\ twice = NoRaster
    /\ RasterIdle /\ AggIdle /\ MosaicIdle /\ BookIdle /\ BatchIdle /\ LayoutIdle
    /\ GridIdle

\* 1.3: the loop body on a raw tile
Normalize ==
    /\ npc = "raw"
    /\ once' = ManageNoData(tile, newval, TRUE)
    /\ npc' = "normalized"
    /\ UNCHANGED <<tile, newval, twice, notNoData>>

\* the same call on the tile it wrote
NormalizeAgain ==
    /\ npc = "normalized"
    /\ twice' = ManageNoData(once, newval, TRUE)
    /\ npc' = "renormalized"
    /\ UNCHANGED <<tile, newval, once, notNoData>>

NextNoData ==
    \/ Normalize
    \/ NormalizeAgain

SpecNoData == InitNoData /\ [][NextNoData]_vars

-----------------------------------------------------------------------------
(* SpecMosaic: gdal.BuildVRT over the sorted "-nd.tif" tiles.              *)

\* side of a tile, in pixels
TileW == 2

\* a tile covers TileW x TileW pixels from (x0, y0); its pixels are its
\* path number, no-data in the west column (kind 2) or everywhere (kind 3)
TileCovers(t, c) ==
    /\ c[1] \in t.x0 .. (t.x0 + TileW - 1)
    /\ c[2] \in t.y0 .. (t.y0 + TileW - 1)

TilePixel(t, c) ==
    CASE t.kind = 1 -> Int2R(t.path)
      [] t.kind = 2 -> IF c[1] = t.x0 THEN nodata ELSE Int2R(t.path)
      [] OTHER      -> nodata

Min(S) == CHOOSE x \in S : \A y \in S : x <= y

Max(S) == CHOOSE x \in S : \A y \in S : x >= y

\* nd_paths.sort(): the paths in ascending order
RECURSIVE SortByPath(_)
SortByPath(ts) ==
    IF ts = << >> THEN << >>
    ELSE LET i == CHOOSE i \in DOMAIN ts : \A j \in DOMAIN ts : ts[i].path <= ts[j].path
             rest == [j \in 1 .. (Len(ts) - 1) |-> IF j < i THEN ts[j] ELSE ts[j + 1]]
         IN  <<ts[i]>> \o SortByPath(rest)

\* the union bounding box of the tiles
Extent(ts) ==
    [xmin |-> Min({ts[i].x0 : i \in DOMAIN ts}),
     ymin |-> Min({ts[i].y0 : i \in DOMAIN ts}),
     xmax |-> Max({ts[i].x0 + TileW : i \in DOMAIN ts}),
     ymax |-> Max({ts[i].y0 + TileW : i \in DOMAIN ts})]

ExtentCells(e) == (e.xmin .. (e.xmax - 1)) \X (e.ymin .. (e.ymax - 1))

\* a mosaic in which the first source that has data wins
BuildVRT_FirstWins(ts) ==
    [extent |-> Extent(ts),
     px     |-> [c \in ExtentCells(Extent(ts)) |->
                    LET data == {i \in DOMAIN ts :
                                    TileCovers(ts[i], c) /\ TilePixel(ts[i], c) # nodata}
                    IN  IF data = {} THEN nodata ELSE TilePixel(ts[Min(data)], c)]]

\* the sources are drawn in list order over a no-data background; a
\* source's no-data pixels (the tiles declare config nodata) are not drawn
BuildVRT(ts) ==
    [extent |-> Extent(ts),
     px     |-> [c \in ExtentCells(Extent(ts)) |->
                    LET data == {i \in DOMAIN ts :
                                    TileCovers(ts[i], c) /\ TilePixel(ts[i], c) # nodata}
                    IN  IF data = {} THEN nodata ELSE TilePixel(ts[Max(data)], c)]]

RECURSIVE Perms(_)
Perms(S) ==
    IF S = {} THEN {<< >>}
    ELSE UNION {{<<x>> \o q : q \in Perms(S \ {x})} : x \in S}

\* glob.glob returns the paths in any order
InitMosaic ==
    /\ nd_paths \in UNION {
          {[i \in 1 .. n |-> [path |-> q[i], x0 |-> g[i].x0, y0 |-> g[i].y0, kind |-> g[i].kind]] :
              q \in Perms(1 .. n),
              g \in [1 .. n -> [x0 : 0 .. 2, y0 : 0 .. 1, kind : 1 .. 3]]} :
          n \in 1 .. MaxTiles}
    /\ mpc = "globbed"
    /\ vrt = NoRaster
    /\ RasterIdle /\ AggIdle /\ NoDataIdle /\ BookIdle /\ BatchIdle /\ LayoutIdle
    /\ GridIdle

SortPaths ==
    /\ mpc = "globbed"
    /\ nd_paths' = SortByPath(nd_paths)
    /\ mpc' = "sorted"
    /\ UNCHANGED <<vrt, notMosaic>>

MosaicTiles ==
    /\ mpc = "sorted"
    /\ vrt' = BuildVRT(nd_paths)
    /\ mpc' = "built"
    /\ UNCHANGED <<nd_paths, notMosaic>>

NextMosaic ==
    \/ SortPaths
    \/ MosaicTiles

SpecMosaic == InitMosaic /\ [][NextMosaic]_vars

-----------------------------------------------------------------------------
(* SpecNotebook: the cells of section 1 (population), run top to bottom.   *)
(* A cell that raises ends the run: gdal.UseExceptions() turns GDAL's      *)
(* errors into exceptions, and nothing in the notebook catches one.        *)
(*                                                                         *)
(* A file is [t |-> tile, sfx |-> suffixes]: tile t's raw file "X.tif"      *)
(* with "-nd" or "-mask" put before ".tif" once per suffix ("X-nd.tif",    *)
(* "X-nd-nd.tif", "X-mask.tif": input_path[:-4] + "-nd.tif").              *)

\* the order of the names after the tile's own: '-' sorts before '.', and
\* "mask" before "nd"
RECURSIVE SfxBefore(_, _)
SfxBefore(a, b) ==
    IF a = << >> THEN b = << >>
    ELSE IF b = << >> THEN TRUE
    ELSE IF a[1] # b[1] THEN a[1] = "mask"
    ELSE SfxBefore(Tail(a), Tail(b))

PathBefore(f, g) == f.t < g.t \/ (f.t = g.t /\ SfxBefore(f.sfx, g.sfx))

\* sorted(glob.glob(...))
RECURSIVE SortFiles(_)
SortFiles(S) ==
    IF S = {} THEN << >>
    ELSE LET f == CHOOSE f \in S : \A g \in S : PathBefore(f, g)
         IN  <<f>> \o SortFiles(S \ {f})

\* input_path[:-4] + "-nd.tif"
NdOf(f) == [t |-> f.t, sfx |-> Append(f.sfx, "nd")]

\* input_path[:-4] + "-mask.tif"
MaskOf(f) == [t |-> f.t, sfx |-> Append(f.sfx, "mask")]

\* LACR-pop-density-*-nd.tif
IsNd(f) == f.sfx # << >> /\ f.sfx[Len(f.sfx)] = "nd"

\* the body of the changevalue loop (1.3), statement by statement
NdBody ==
    <<[op |-> "SetParameter", key |-> "in"],
      [op |-> "SetParameter", key |-> "out"],
      [op |-> "SetParameter", key |-> "mode"],
      [op |-> "SetParameter", key |-> "mode.changevalue.newv"],
      [op |-> "SetParameter", key |-> "usenan"],
      [op |-> "ExecuteAndWriteOutput", key |-> ""],
      [op |-> "ClearValue", key |-> "in"],
      [op |-> "ClearValue", key |-> "out"],
      [op |-> "ClearValue", key |-> "mode"],
      [op |-> "ClearValue", key |-> "mode.changevalue.newv"],
      [op |-> "ClearValue", key |-> "usenan"]>>

\* the body of the buildmask loop (1.4.2); `masking' is not a name of the
\* notebook
MaskBody ==
    <<[op |-> "SetParameter", key |-> "in"],
      [op |-> "SetParameter", key |-> "out"],
      [op |-> "SetParameter", key |-> "mode"],
      [op |-> "SetParameter", key |-> "usenan"],
      [op |-> "NameError", key |-> "masking"],
      [op |-> "ExecuteAndWriteOutput", key |-> ""],
      [op |-> "ClearValue", key |-> "in"],
      [op |-> "ClearValue", key |-> "out"],
      [op |-> "ClearValue", key |-> "mode"],
      [op |-> "ClearValue", key |-> "mode.changevalue.newv"],
      [op |-> "ClearValue", key |-> "usenan"]>>

Body == IF cell = "nd_loop" THEN NdBody ELSE MaskBody

InLoop == cell \in {"nd_loop", "mask_loop"}

\* the cell after c
NextCell(c) ==
    CASE c = "raw_paths" -> "nd_loop"
      [] c = "nd_loop"   -> "nd_paths"
      [] c = "nd_paths"  -> "BuildVRT"
      [] c = "BuildVRT"  -> "Warp"
      [] c = "Warp"      -> "mask_loop"
      [] OTHER           -> "grid_loop"

\* a run that goes on with the next cell after an exception
Raise_AllowErrors(c) == NextCell(c)

\* an exception in cell c ends the run
Raise(c) == "halted"

\* the value the loop body gives parameter key
ParameterValue(key) ==
    CASE key = "in"   -> raw_paths[ipath]
      [] key = "out"  -> IF cell = "nd_loop" THEN NdOf(raw_paths[ipath])
                         ELSE MaskOf(raw_paths[ipath])
      [] key = "mode" -> IF cell = "nd_loop" THEN "changevalue" ELSE "buildmask"
      [] key = "mode.changevalue.newv" -> NoDataValue
      [] OTHER        -> TRUE

\* the function g without key k
Without(g, k) == [x \in DOMAIN g \ {k} |-> g[x]]

\* the function g with key k set to v
With(g, k, v) == [x \in DOMAIN g \cup {k} |-> IF x = k THEN v ELSE g[x]]

RawFile(t) == [t |-> t, sfx |-> << >>]

\* the data directory holds the raw tiles, and the "-nd.tif" files an
\* earlier run left for some of them
InitNotebook ==
    /\ \E n \in 1 .. MaxRaw : \E stale \in SUBSET (1 .. n) :
          files = {RawFile(t) : t \in 1 .. n} \cup {NdOf(RawFile(t)) : t \in stale}
    /\ cell = "raw_paths"
    /\ ipath = 0 /\ stmt = 0
    /\ written = {}
    /\ raw_paths = << >> /\ otb = << >> /\ vrt_paths = << >>
    /\ built = << >> /\ average = << >>
    /\ RasterIdle /\ AggIdle /\ NoDataIdle /\ MosaicIdle /\ BatchIdle /\ LayoutIdle
    /\ GridIdle

\* raw_paths = glob.glob('LACR-pop-density-*'); raw_paths.sort()
GlobRaw ==
    /\ cell = "raw_paths"
    /\ raw_paths' = SortFiles(files)
    /\ cell' = NextCell(cell)
    /\ ipath' = 1 /\ stmt' = 1
    /\ UNCHANGED <<files, written, otb, vrt_paths, built, average, notBook>>

\* manageNoData.SetParameterString / SetParameterValue
SetParameter ==
    /\ InLoop /\ Body[stmt].op = "SetParameter"
    /\ otb' = With(otb, Body[stmt].key, ParameterValue(Body[stmt].key))
    /\ stmt' = stmt + 1
    /\ UNCHANGED <<cell, ipath, files, written, raw_paths, vrt_paths, built, average, notBook>>

\* manageNoData.ExecuteAndWriteOutput(): the output file is written, or the
\* application raises
ExecuteAndWriteOutput ==
    /\ InLoop /\ Body[stmt].op = "ExecuteAndWriteOutput"
    /\ \/ /\ {"in", "out", "mode"} \subseteq DOMAIN otb
          /\ files' = files \cup {otb["out"]}
          /\ written' = written \cup {otb["out"]}
          /\ stmt' = stmt + 1
          /\ UNCHANGED cell
       \/ /\ cell' = Raise(cell)
          /\ UNCHANGED <<files, written, stmt>>
    /\ UNCHANGED <<ipath, raw_paths, otb, vrt_paths, built, average, notBook>>

\* manageNoData.ClearValue; after the last one the loop takes the next
\* path, or the next cell runs
ClearValue ==
    /\ InLoop /\ Body[stmt].op = "ClearValue"
    /\ otb' = Without(otb, Body[stmt].key)
    /\ IF stmt < Len(Body)
       THEN stmt' = stmt + 1 /\ UNCHANGED <<cell, ipath>>
       ELSE IF ipath < Len(raw_paths)
            THEN stmt' = 1 /\ ipath' = ipath + 1 /\ UNCHANGED cell
            ELSE stmt' = 1 /\ ipath' = 1 /\ cell' = NextCell(cell)
    /\ UNCHANGED <<files, written, raw_paths, vrt_paths, built, average, notBook>>

\* masking.SetParameterOutputImagePixelType("out", 1)
NameError ==
    /\ InLoop /\ Body[stmt].op = "NameError"
    /\ cell' = Raise(cell)
    /\ UNCHANGED <<ipath, stmt, files, written, raw_paths, otb, vrt_paths, built, average, notBook>>

\* nd_paths = glob.glob('LACR-pop-density-*-nd.tif'); nd_paths.sort()
GlobNd ==
    /\ cell = "nd_paths"
    /\ vrt_paths' = SortFiles({f \in files : IsNd(f)})
    /\ cell' = NextCell(cell)
    /\ UNCHANGED <<ipath, stmt, files, written, raw_paths, otb, built, average, notBook>>

\* vrt = gdal.BuildVRT(vrt_path, nd_paths); vrt.FlushCache()
BuildVRTCell ==
    /\ cell = "BuildVRT"
    /\ \/ built' = vrt_paths /\ cell' = NextCell(cell)
       \/ cell' = Raise(cell) /\ UNCHANGED built
    /\ UNCHANGED <<ipath, stmt, files, written, raw_paths, otb, vrt_paths, average, notBook>>

\* gdal.Warp(average_path, vrt_path, options = warp_options)
WarpCell ==
    /\ cell = "Warp"
    /\ \/ average' = built /\ cell' = NextCell(cell)
       \/ cell' = Raise(cell) /\ UNCHANGED average
    /\ UNCHANGED <<ipath, stmt, files, written, raw_paths, otb, vrt_paths, built, notBook>>

NextNotebook ==
    \/ GlobRaw
    \/ SetParameter
    \/ ExecuteAndWriteOutput
    \/ ClearValue
    \/ NameError
    \/ GlobNd
    \/ BuildVRTCell
    \/ WarpCell

SpecNotebook == InitNotebook /\ [][NextNotebook]_vars

-----------------------------------------------------------------------------
(* SpecBatch: the batch driver of the design: one pipeline per Measure,    *)
(* run by a bounded number of workers; a stage may fail, a failed write is *)
(* retried a bounded number of times.                                      *)

Measures == 1 .. NumMeasures

Stages == <<"normalize", "mosaic", "reproject", "aggregate", "write">>

StageAfter(st) ==
    CASE st = "normalize" -> "mosaic"
      [] st = "mosaic"    -> "reproject"
      [] st = "reproject" -> "aggregate"
      [] OTHER            -> "write"

\* a driver that gives up on the whole batch when one Measure fails
MarkFailed_AbortBatch(st, m) ==
    [o \in DOMAIN st |-> IF st[o] = "done" THEN "done" ELSE "failed"]

\* Measure m's pipeline has failed; the others go on
MarkFailed(st, m) == [st EXCEPT ![m] = "failed"]

InitBatch ==
    /\ stage = [m \in Measures |-> "queued"]
    /\ tries = [m \in Measures |-> 0]
    /\ running = {} /\ reported = {} /\ outputs = {}
    /\ RasterIdle /\ AggIdle /\ NoDataIdle /\ MosaicIdle /\ BookIdle
    /\ LayoutIdle /\ GridIdle

\* a free worker takes Measure m
Start(m) ==
    /\ stage[m] = "queued"
    /\ Cardinality(running) < WorkerCount
    /\ stage' = [stage EXCEPT ![m] = Stages[1]]
    /\ running' = running \cup {m}
    /\ UNCHANGED <<tries, reported, outputs, notBatch>>

\* a stage before the write completes
Advance(m) ==
    /\ m \in running
    /\ stage[m] \in {"normalize", "mosaic", "reproject", "aggregate"}
    /\ stage' = [stage EXCEPT ![m] = StageAfter(stage[m])]
    /\ UNCHANGED <<tries, running, reported, outputs, notBatch>>

\* a stage before the write fails: not retried, reported for m
FailStage(m) ==
    /\ m \in running
    /\ stage[m] \in {"normalize", "mosaic", "reproject", "aggregate"}
    /\ stage' = MarkFailed(stage, m)
    /\ reported' = reported \cup {m}
    /\ running' = running \ {m}
    /\ UNCHANGED <<tries, outputs, notBatch>>

\* the write succeeds
WriteOk(m) ==
    /\ m \in running /\ stage[m] = "write"
    /\ stage' = [stage EXCEPT ![m] = "done"]
    /\ outputs' = outputs \cup {m}
    /\ running' = running \ {m}
    /\ UNCHANGED <<tries, reported, notBatch>>

\* the write fails: retried while retries are left, fatal for m after
WriteError(m) ==
    /\ m \in running /\ stage[m] = "write"
    /\ IF tries[m] < MaxRetries
       THEN /\ tries' = [tries EXCEPT ![m] = @ + 1]
            /\ UNCHANGED <<stage, running, reported>>
       ELSE /\ stage' = MarkFailed(stage, m)
            /\ reported' = reported \cup {m}
            /\ running' = running \ {m}
            /\ UNCHANGED tries
    /\ UNCHANGED <<outputs, notBatch>>

Step(m) ==
    \/ Start(m)
    \/ Advance(m)
    \/ FailStage(m)
    \/ WriteOk(m)
    \/ WriteError(m)

NextBatch == \E m \in Measures : Step(m)

\* a worker that holds a Measure keeps working on it, and a free worker
\* takes a queued Measure
SpecBatch ==
    InitBatch /\ [][NextBatch]_vars /\ \A m \in Measures : WF_vars(Step(m))

-----------------------------------------------------------------------------
(* SpecLayout: the cell that creates the data directories, run once or     *)
(* again, and the writing of one raster per grid size and Measure that     *)
(* the design describes.                                                   *)

\* config.yml, grid-size
GridSize == <<1000, 5000, 10000, 50000, 100000>>

\* config.yml, prefix
Prefix ==
    [leaf_area |-> "lai", livestock |-> "cow", population |-> "pop",
     precipitation |-> "pcp", temperature |-> "lst", tree_cover |-> "tc"]

\* the keys of prefix, in the order of config.yml
MeasureKeys ==
    <<"leaf_area", "livestock", "population", "precipitation", "temperature",
      "tree_cover">>

DigitChar == <<"0", "1", "2", "3", "4", "5", "6", "7", "8", "9">>

\* the decimal digits of n >= 0
RECURSIVE Decimal(_)
Decimal(n) ==
    IF n < 10 THEN <<DigitChar[n + 1]>>
    ELSE Append(Decimal(n \div 10), DigitChar[(n % 10) + 1])

\* zeros in front up to width w
RECURSIVE ZeroPad(_, _)
ZeroPad(str, w) == IF Len(str) >= w THEN str ELSE ZeroPad(<<"0">> \o str, w)

\* a format that keeps the last four digits only
Format06d_LastFour(n) == ZeroPad(Decimal(n % 10000), 4)

\* "{:06d}".format(n)
Format06d(n) == ZeroPad(Decimal(n), 6)

\* os.path.join(config[key], name); the directory config[key] itself has
\* the empty name
Join(key, name) == [parent |-> key, name |-> name]

\* [config['data-dir'], config['data-mx-in'], config['data-mx-out']]
BaseDirs ==
    <<Join("data-dir", << >>), Join("data-mx-in", << >>),
      Join("data-mx-out", << >>)>>

\* os.path.join(config['data-mx-in'], "{:06d}-m".format(int(grid_size)))
GridDir(grid_size) == Join("data-mx-in", Format06d(grid_size) \o <<"-", "m">>)

\* {cellSizeDirectory}/{measureCode}
Location(grid_size, measure) == [dir |-> GridDir(grid_size), code |-> Prefix[measure]]

\* the (grid size, Measure) pairs in the order they are written
NumPairs == Len(GridSize) * Len(MeasureKeys)
PairSize(i) == GridSize[((i - 1) \div Len(MeasureKeys)) + 1]
PairMeasure(i) == MeasureKeys[((i - 1) % Len(MeasureKeys)) + 1]

AllDirs ==
    {BaseDirs[i] : i \in 1 .. Len(BaseDirs)}
        \cup {GridDir(GridSize[i]) : i \in 1 .. Len(GridSize)}

\* a directory is there only inside a directory that is there
Nested(S) == \A d \in S : Join(d.parent, << >>) \in S

InitLayout ==
    /\ fs \in {S \in SUBSET AllDirs : Nested(S)}
    /\ grid_dirs = << >>
    /\ lpc = "base" /\ idir = 1 /\ run = 1
    /\ gridfiles = {}
    /\ RasterIdle /\ AggIdle /\ NoDataIdle /\ MosaicIdle /\ BookIdle /\ BatchIdle
    /\ GridIdle

\* one turn of the loop over the three configured directories; after the
\* last, grid_dirs = list()
MkBaseDir ==
    /\ lpc = "base"
    /\ fs' = fs \cup {BaseDirs[idir]}
    /\ IF idir < Len(BaseDirs)
       THEN /\ idir' = idir + 1
            /\ UNCHANGED <<lpc, grid_dirs>>
       ELSE /\ idir' = 1
            /\ lpc' = "grid"
            /\ grid_dirs' = << >>
    /\ UNCHANGED <<run, gridfiles, notLayout>>

\* one turn of the loop over config['grid-size']; os.mkdir raises when
\* the parent directory is missing
MkGridDir ==
    /\ lpc = "grid"
    /\ grid_dirs' = Append(grid_dirs, GridDir(GridSize[idir]))
    /\ IF GridDir(GridSize[idir]) \notin fs /\ Join("data-mx-in", << >>) \notin fs
       THEN /\ lpc' = "halted"
            /\ UNCHANGED <<fs, idir>>
       ELSE /\ fs' = fs \cup {GridDir(GridSize[idir])}
            /\ IF idir < Len(GridSize)
               THEN idir' = idir + 1 /\ UNCHANGED lpc
               ELSE idir' = 0 /\ lpc' = "made"
    /\ UNCHANGED <<run, gridfiles, notLayout>>

\* the cell is run again
RerunCell ==
    /\ lpc = "made" /\ run < MaxRuns
    /\ run' = run + 1
    /\ lpc' = "base" /\ idir' = 1
    /\ UNCHANGED <<fs, grid_dirs, gridfiles, notLayout>>

\* the next (grid size, Measure) raster is written to its location
WriteGrid ==
    /\ lpc = "made"
    /\ Cardinality(gridfiles) < NumPairs
    /\ LET i == Cardinality(gridfiles) + 1
       IN gridfiles' = gridfiles \cup
            {[size |-> PairSize(i), measure |-> PairMeasure(i),
              at |-> Location(PairSize(i), PairMeasure(i))]}
    /\ UNCHANGED <<fs, grid_dirs, lpc, idir, run, notLayout>>

NextLayout ==
    \/ MkBaseDir
    \/ MkGridDir
    \/ RerunCell
    \/ WriteGrid

SpecLayout == InitLayout /\ [][NextLayout]_vars

-----------------------------------------------------------------------------
(* SpecGrid: the size of the raster gdal.Warp makes for the bounding box   *)
(* at config['grid-size'][0], and of the k x k windows each coarser grid   *)
(* size lays over it.                                                      *)

\* config.yml, bounds: xmin, ymin, xmax, ymax
Bounds == <<-11864000, -6477000, -2010000, 3962000>>

\* config['grid-size'][0]
BaseSize == GridSize[1]

\* a size that always counts one pixel beyond the whole ones
WarpSize_ExtraPixel(len, res) == (len \div res) + 1

\* the pixels gdal.Warp gives a side of length len at resolution res: the
\* nearest whole number, the half rounded up
WarpSize(len, res) == (len + (res \div 2)) \div res

\* the raster of gdal.Warp with outputBounds b and xRes = yRes = res: its
\* corner is (xmin, ymax)
WarpGrid(b, res) ==
    LET w == WarpSize(b[3] - b[1], res)
        h == WarpSize(b[4] - b[2], res)
    IN [w |-> w, h |-> h,
        extent |-> <<b[1], b[4] - (h * res), b[1] + (w * res), b[4]>>]

\* the k x k windows of a coarser size over a w x h base raster
Windows(size, g) ==
    LET k == size \div BaseSize
    IN [size |-> size, k |-> k, exact |-> (size % BaseSize = 0),
        cols |-> g.w \div k, rows |-> g.h \div k,
        remx |-> g.w % k, remy |-> g.h % k]

\* the boxes: the configured one, widened east and north by half cells
Boxes ==
    {<<Bounds[1], Bounds[2], Bounds[3] + (p * (BaseSize \div 2)),
       Bounds[4] + (q * (BaseSize \div 2))>> : p, q \in 0 .. MaxPad}

InitGrid ==
    /\ box \in Boxes
    /\ gpc = "warp" /\ baseGrid = << >> /\ grids = << >>
    /\ RasterIdle /\ AggIdle /\ NoDataIdle /\ MosaicIdle /\ BookIdle /\ BatchIdle
    /\ LayoutIdle

\* gdal.Warp(average_path, vrt_path, options = warp_options)
WarpBox ==
    /\ gpc = "warp"
    /\ baseGrid' = WarpGrid(box, BaseSize)
    /\ gpc' = "aggregate"
    /\ UNCHANGED <<box, grids, notGrid>>

\* the next coarser grid size is laid over the base raster
LayWindows ==
    /\ gpc = "aggregate"
    /\ grids' = Append(grids, Windows(GridSize[Len(grids) + 2], baseGrid))
    /\ gpc' = IF Len(grids) + 2 = Len(GridSize) THEN "done" ELSE "aggregate"
    /\ UNCHANGED <<box, baseGrid, notGrid>>

NextGrid ==
    \/ WarpBox
    \/ LayWindows

SpecGrid == InitGrid /\ [][NextGrid]_vars

-----------------------------------------------------------------------------
(* The Reprojector's contract, read off the raw source tile.               *)

\* the valid (non-NaN) raw pixels under destination pixel d
ValidSrc(d) == {c \in Window(d, off) : ~IsNaN(raw.px[c])}

ValidCount(d) == Cardinality(ValidSrc(d))

ValidSum(d) == SumOver(raw.px, ValidSrc(d))

\* d covers a full window of source pixels
Covered(d) == Cardinality(Window(d, off)) = CellsPerWindow

Uniform(v) == \A c \in Cells(SrcW) : raw.px[c] = v

Scaled == rpc \in {"aggregate", "done"}

Warped == rpc \in {"buildmask", "fraction", "scale", "aggregate", "done"}

ReprojectorFormula(d) == RMul(avg[d], RMul(frac[d], Int2R(CellsPerWindow)))

AggregatorFormula(d) == RMul(ValidSum(d), Rat(CellsPerWindow, ValidCount(d)))

ValidDst == {d \in Cells(DstW) : dest[d] # nodata}

AllValidSrc == {c \in Cells(SrcW) : ~IsNaN(raw.px[c])}

NoNaN(r) == \A c \in DOMAIN r : ~IsNaN(r[c])

C6_UniformIntensive ==
    LET v == raw.px[<<0, 0>>]
    IN  (Warped /\ off = 0 /\ ~IsNaN(v) /\ Uniform(v)) =>
            \A d \in Cells(DstW) : avg[d] = v

C6_Witness ==
    /\ rpc = "done" /\ off = 0 /\ Uniform(Int2R(100))
    /\ \A d \in Cells(DstW) : avg[d] = Int2R(100)

-----------------------------------------------------------------------------
(* The MultiScaleAggregator's consistency, on the base raster.             *)

SubCount(b) == Cardinality(ValidIn(base, AggWindow(b, 2)))

\* every 2x2 sub-window holding a valid pixel holds the same number
EvenValidity ==
    \A b1, b2 \in Cells(SrcW \div 2) :
        (SubCount(b1) > 0 /\ SubCount(b2) > 0) => SubCount(b1) = SubCount(b2)

BothWays == {"twotwo", "four"} \subseteq apc

\* C3 as stated: for every base raster, aggregating by 2 and by 2 again
\* gives what aggregating by 4 gives, for intensive and extensive measures.
C3_Original == BothWays => twotwo = four

\* C3, amended: the two ways agree on every base raster in which, inside
\* each 4x4 window, all 2x2 sub-windows holding a valid pixel hold equally
\* many (a fully valid raster among them).
C3_Amended == (BothWays /\ EvenValidity) => twotwo = four

C3_Witness ==
    /\ BothWays /\ EvenValidity
    /\ \E b \in Cells(SrcW \div 2) : SubCount(b) = 0
    /\ \E b \in Cells(SrcW \div 2) : SubCount(b) \in 1 .. 3
    /\ twotwo = four
    /\ four.int[<<0, 0>>] # nodata

-----------------------------------------------------------------------------
(* The NoDataNormalizer's contract.                                        *)

\* the band's metadata declares v
Declares(band, v) == band.flag /\ band.val = v

SameFrame(t, u) ==
    /\ u.shape = t.shape /\ u.geo = t.geo
    /\ DOMAIN u.bands = DOMAIN t.bands
    /\ \A b \in DOMAIN t.bands : DOMAIN u.bands[b].px = DOMAIN t.bands[b].px

\* C7 as stated: normalizing replaces exactly the pixels equal to the
\* band's declared sentinel by the canonical value, declares the canonical
\* value on every band, leaves the other pixels, the shape and the
\* georeferencing alone, and is idempotent.
C7_Original ==
    /\ npc \in {"normalized", "renormalized"} =>
          /\ SameFrame(tile, once)
          /\ \A b \in DOMAIN tile.bands :
                /\ Declares(once.bands[b], newval)
                /\ \A i \in DOMAIN tile.bands[b].px :
                      once.bands[b].px[i] =
                          IF Declares(tile.bands[b], tile.bands[b].px[i])
                          THEN newval ELSE tile.bands[b].px[i]
    /\ npc = "renormalized" => twice = once

\* C7, amended: normalizing replaces exactly the pixels that are NaN or
\* equal to the band's declared sentinel; the rest of the claim stands.
C7_Amended ==
    /\ npc \in {"normalized", "renormalized"} =>
          /\ SameFrame(tile, once)
          /\ \A b \in DOMAIN tile.bands :
                /\ Declares(once.bands[b], newval)
                /\ \A i \in DOMAIN tile.bands[b].px :
                      once.bands[b].px[i] =
                          IF \/ IsNaN(tile.bands[b].px[i])
                             \/ Declares(tile.bands[b], tile.bands[b].px[i])
                          THEN newval ELSE tile.bands[b].px[i]
    /\ npc = "renormalized" => twice = once

C7_Witness ==
    /\ npc = "renormalized" /\ newval = nodata
    /\ \E b \in DOMAIN tile.bands :
          /\ tile.bands[b].px = <<NaN, Int2R(-1)>>
          /\ Declares(tile.bands[b], Int2R(-1))
          /\ once.bands[b].px = <<nodata, nodata>>
    /\ \E b \in DOMAIN tile.bands :
          /\ tile.bands[b].px = <<Int2R(5), Int2R(-1)>>
          /\ ~tile.bands[b].flag
          /\ once.bands[b].px = <<Int2R(5), Int2R(-1)>>
    /\ twice = once

-----------------------------------------------------------------------------
(* The TileMosaicker's contract.                                           *)

Covering(c) == {i \in DOMAIN nd_paths : TileCovers(nd_paths[i], c)}

\* the smallest box holding every tile
IsUnionBox(e) ==
    /\ \A i \in DOMAIN nd_paths :
          /\ e.xmin <= nd_paths[i].x0 /\ nd_paths[i].x0 + TileW <= e.xmax
          /\ e.ymin <= nd_paths[i].y0 /\ nd_paths[i].y0 + TileW <= e.ymax
    /\ \E i \in DOMAIN nd_paths : e.xmin = nd_paths[i].x0
    /\ \E i \in DOMAIN nd_paths : e.ymin = nd_paths[i].y0
    /\ \E i \in DOMAIN nd_paths : e.xmax = nd_paths[i].x0 + TileW
    /\ \E i \in DOMAIN nd_paths : e.ymax = nd_paths[i].y0 + TileW

\* C8 as stated: the mosaic's extent is the union bounding box, and every
\* location covered by a tile shows the value of the last tile, in input
\* order, that covers it.
C8_Original ==
    mpc = "built" =>
        /\ IsUnionBox(vrt.extent)
        /\ DOMAIN vrt.px = ExtentCells(vrt.extent)
        /\ \A c \in DOMAIN vrt.px :
              Covering(c) # {} =>
                  vrt.px[c] = TilePixel(nd_paths[Max(Covering(c))], c)

\* C8, amended: the extent is the union bounding box; every location shows
\* the value of the last tile, in input order, whose pixel there is not
\* no-data, and no-data where no tile has data.
C8_Amended ==
    mpc = "built" =>
        /\ IsUnionBox(vrt.extent)
        /\ DOMAIN vrt.px = ExtentCells(vrt.extent)
        /\ \A c \in DOMAIN vrt.px :
              /\ \A i \in Covering(c) :
                    (/\ TilePixel(nd_paths[i], c) # nodata
                     /\ \A j \in Covering(c) :
                           j > i => TilePixel(nd_paths[j], c) = nodata)
                        => vrt.px[c] = TilePixel(nd_paths[i], c)
              /\ (\A i \in Covering(c) : TilePixel(nd_paths[i], c) = nodata)
                    => vrt.px[c] = nodata

C8_Witness ==
    /\ mpc = "built"
    /\ \E c \in DOMAIN vrt.px :
          \E i, j \in Covering(c) :
              /\ i < j
              /\ TilePixel(nd_paths[j], c) = nodata
              /\ TilePixel(nd_paths[i], c) # nodata
              /\ vrt.px[c] = TilePixel(nd_paths[i], c)
    /\ \E c \in DOMAIN vrt.px :
          \E i, j \in Covering(c) :
              /\ i < j
              /\ TilePixel(nd_paths[j], c) # nodata
              /\ TilePixel(nd_paths[i], c) # nodata
              /\ vrt.px[c] = TilePixel(nd_paths[j], c)

-----------------------------------------------------------------------------
(* The order of the stages in one run of the notebook.                     *)

Range(q) == {q[i] : i \in DOMAIN q}

\* every raw path's "-nd.tif" has been written by this run
AllNormalized ==
    /\ raw_paths # << >>
    /\ \A i \in DOMAIN raw_paths : NdOf(raw_paths[i]) \in written

\* the VRT is built, over the "-nd.tif" of every raw path
MosaicComplete ==
    /\ built # << >>
    /\ \A i \in DOMAIN raw_paths : NdOf(raw_paths[i]) \in Range(built)

\* C10: the stages run in order: mosaicking starts only when every tile is
\* normalized, reprojection starts only when the mosaic over all normalized
\* tiles is complete and reads that mosaic whole; what follows
\* reprojection (the mask loop here) starts only when reprojection is
\* complete.
C10_StagesInOrder ==
    /\ (cell \in {"nd_paths", "BuildVRT"} \/ built # << >>) => AllNormalized
    /\ (cell = "Warp" \/ average # << >>) => (AllNormalized /\ MosaicComplete)
    /\ average # << >> => average = built
    /\ cell \in {"mask_loop", "grid_loop"} => average # << >>

C10_Witness ==
    /\ cell = "mask_loop" /\ Len(raw_paths) >= 2
    /\ AllNormalized /\ MosaicComplete /\ average = built

-----------------------------------------------------------------------------
(* Partial success of the batch.                                           *)

Settled(m) == stage[m] \in {"done", "failed"}

\* a step in which Measure m fails touches m alone and reports m alone
FailureIsolated ==
    \A m \in Measures :
        (stage[m] # "failed" /\ stage'[m] = "failed") =>
            /\ reported' = reported \cup {m}
            /\ \A o \in Measures \ {m} : stage'[o] = stage[o] /\ tries'[o] = tries[o]
            /\ outputs' = outputs

-----------------------------------------------------------------------------
(* The output layout.                                                      *)

SixDigits(name) ==
    /\ Len(name) = 8 /\ name[7] = "-" /\ name[8] = "m"
    /\ \A i \in 1 .. 6 : \E d \in 1 .. 10 : name[i] = DigitChar[d]

\* the number a string of digits reads as
RECURSIVE Reads(_)
Reads(str) ==
    IF str = << >> THEN 0
    ELSE 10 * Reads(SubSeq(str, 1, Len(str) - 1))
            + (CHOOSE d \in 0 .. 9 : DigitChar[d + 1] = str[Len(str)])

\* the directories are one per configured size, in configuration order,
\* each named by its size in six digits
DirsInOrder ==
    /\ Len(grid_dirs) = Len(GridSize)
    /\ \A i \in 1 .. Len(GridSize) :
          /\ grid_dirs[i] \in fs
          /\ grid_dirs[i].parent = "data-mx-in"
          /\ SixDigits(grid_dirs[i].name)
          /\ Reads(SubSeq(grid_dirs[i].name, 1, 6)) = GridSize[i]
    /\ \A i, j \in 1 .. Len(GridSize) : grid_dirs[i] = grid_dirs[j] => i = j

\* each raster written lies in its size's directory under its Measure's
\* code, and no two share a location
OnePlaceEach ==
    /\ \A f \in gridfiles :
          /\ \E i \in 1 .. Len(grid_dirs) :
                GridSize[i] = f.size /\ f.at.dir = grid_dirs[i]
          /\ f.at.dir \in fs
          /\ f.at.code = Prefix[f.measure]
    /\ \A f, g \in gridfiles :
          f.at = g.at => (f.size = g.size /\ f.measure = g.measure)

\* C11: once the directory cell has run, grid_dirs lists one existing
\* directory per configured grid size, in configuration order, named by the
\* size in six zero-padded digits (and "-m"); every (size, Measure) raster
\* written lies in that size's directory under the Measure's code and no two
\* pairs share a location; running the cell again when the directories exist
\* changes no directory, and no step ever removes one.
C11_OutputLayout ==
    /\ [](lpc = "made" => (DirsInOrder /\ OnePlaceEach))
    /\ [](lpc # "halted")
    /\ [][fs \subseteq fs' /\ (run > 1 => fs' = fs)]_vars

C11_Witness ==
    /\ lpc = "made" /\ run = MaxRuns
    /\ Cardinality(gridfiles) = NumPairs
    /\ Cardinality(fs) = Len(BaseDirs) + Len(GridSize)

-----------------------------------------------------------------------------
(* The grid sizes and the bounding box.                                    *)

\* the base raster covers the box exactly
BaseCoversBox == baseGrid # << >> => baseGrid.extent = box

\* every coarser size laid so far is a whole multiple k of the base size
WholeMultiples == \A i \in 1 .. Len(grids) : grids[i].exact /\ grids[i].k > 1

\* the whole windows of grids[i] cover the base raster
NoPartial(i) == grids[i].remx = 0 /\ grids[i].remy = 0

\* the box of the whole windows of grids[i]
WindowsBox(i) ==
    <<baseGrid.extent[1],
      baseGrid.extent[4] - (grids[i].rows * grids[i].size),
      baseGrid.extent[1] + (grids[i].cols * grids[i].size),
      baseGrid.extent[4]>>

\* C12 as stated: for the configured box every coarser size is a whole
\* multiple k of the base size, the base raster's width and height are whole
\* multiples of every k, and every size's windows cover the same box.
C12_Original ==
    box = Bounds =>
        /\ BaseCoversBox
        /\ WholeMultiples
        /\ \A i \in 1 .. Len(grids) : NoPartial(i) /\ WindowsBox(i) = box

\* C12: for the configured box every coarser size is a whole multiple k of
\* the base size and the base raster covers the box exactly, but its width
\* and height are multiples of no k: every coarser size leaves a partial
\* window on both sides, and its whole windows cover less than the box. For
\* any box, the whole windows of a size cover the base raster's box exactly
\* when they leave no partial window.
C12_Amended ==
    /\ WholeMultiples
    /\ \A i \in 1 .. Len(grids) : NoPartial(i) <=> WindowsBox(i) = baseGrid.extent
    /\ box = Bounds =>
          /\ BaseCoversBox
          /\ \A i \in 1 .. Len(grids) :
                /\ grids[i].remx > 0 /\ grids[i].remy > 0
                /\ WindowsBox(i) # box

C12_Witness ==
    /\ box = Bounds /\ gpc = "done"
    /\ Len(grids) = Len(GridSize) - 1
    /\ baseGrid.w * BaseSize = box[3] - box[1]

-----------------------------------------------------------------------------
(* The parameters of the shared manageNoData application.                  *)

\* the step ends an iteration: the loop takes the next path, the next cell
\* runs, or the run stops
IterationEnds == InLoop /\ (cell' # cell \/ ipath' # ipath)

\* the step is the application itself failing on its input
ToolRaised == Body[stmt].op = "ExecuteAndWriteOutput" /\ cell' = "halted"

\* C13 as stated: at the start of every iteration of the no-data loop and of
\* the mask loop manageNoData has no parameter set, and every iteration,
\* unless the application itself fails on the tile, ends with every parameter
\* it set cleared.
C13_Original ==
    /\ []((InLoop /\ stmt = 1) => otb = << >>)
    /\ [][(IterationEnds /\ ~ToolRaised) => otb' = << >>]_vars

\* the run has stopped in the mask loop with four parameters still set
C13_Witness ==
    /\ cell = "halted"
    /\ DOMAIN otb = {"in", "out", "mode", "usenan"}
    /\ otb["mode"] = "buildmask"
    /\ otb["in"] = raw_paths[1]

=============================================================================
